---- MODULE Spec2Model ----
(***************************************************************************)
(* Model of app.py, the Streamlit dashboard "How Narratives Spread Across  *)
(* Reddit".  Streamlit runs the script top to bottom once when the page    *)
(* opens and again after every widget interaction; load_data() is cached,  *)
(* so every rerun sees the same posts.  One action models one such run.    *)
(*                                                                         *)
(* Strings whose characters matter (title, selftext, keywords) are tuples  *)
(* of one-character strings.  Subreddit names are natural numbers standing *)
(* for names in lexicographic order (1 sorts before 2).                    *)
(***************************************************************************)
EXTENDS Integers, Sequences, FiniteSets, TLC

VARIABLES
    posts,               \* clean_df rows: subreddit, created_utc, title, selftext
    sort_tie,            \* how this build's quicksort places equal keys
    plot_empty_raises,   \* whether this build's bar plot of zero rows raises
    pc,                  \* "start" | "done" | "error"
    error,               \* the exception that ended the last run, or "none"
    rendered,            \* the page sections the last run produced
    day_range,           \* value of the slider
    selected_narrative,  \* value of the selectbox
    narrative_df,        \* exploded, merged frame: one row per (post, narrative)
    first_seen,          \* narrative -> first created_time
    narrative_time_df,   \* rows (days_since_start, narratives, count)
    window_df,           \* rows of narrative_df inside day_range
    summary,             \* the three global metrics
    narrative_counts,    \* rows (Narrative, Post Count)
    narrative_kpis,      \* the three narrative metrics
    community_counts,    \* rows (subreddit, count), at most TopN
    observations         \* the Key Observations block

vars == << posts, sort_tie, plot_empty_raises, pc, error, rendered, day_range,
           selected_narrative, narrative_df, first_seen, narrative_time_df,
           window_df, summary, narrative_counts, narrative_kpis,
           community_counts, observations >>

(***************************************************************************)
(* Bounds of the model                                                     *)
(***************************************************************************)
MaxPosts == 2
MaxExtraPosts == 1
MaxSubreddits == 11

(***************************************************************************)
(* Program constants                                                       *)
(***************************************************************************)
TopN == 10
SecondsPerDay == 86400

NARRATIVES ==
  <<
    [name |-> "Technology / Big Tech",
     keywords |-> <<
        <<"t","e","c","h","n","o","l","o","g","y">>,
        <<"t","e","c","h">>,
        <<"a","i">>,
        <<"a","r","t","i","f","i","c","i","a","l"," ","i","n","t","e","l","l","i","g","e","n","c","e">>,
        <<"g","o","o","g","l","e">>,
        <<"m","e","t","a">>,
        <<"f","a","c","e","b","o","o","k">>,
        <<"t","w","i","t","t","e","r">>,
        <<"m","u","s","k">>,
        <<"d","a","t","a">> >>],
    [name |-> "Politics / Government",
     keywords |-> <<
        <<"e","l","e","c","t","i","o","n">>,
        <<"v","o","t","e">>,
        <<"g","o","v","e","r","n","m","e","n","t">>,
        <<"p","o","l","i","c","y">>,
        <<"b","i","l","l">>,
        <<"p","a","r","l","i","a","m","e","n","t">>,
        <<"c","o","n","g","r","e","s","s">>,
        <<"m","i","n","i","s","t","e","r">>,
        <<"p","r","e","s","i","d","e","n","t">>,
        <<"p","a","r","t","y">> >>],
    [name |-> "Geopolitics / Conflict",
     keywords |-> <<
        <<"w","a","r">>,
        <<"a","t","t","a","c","k">>,
        <<"t","e","r","r","o","r">>,
        <<"t","e","r","r","o","r","i","s","t">>,
        <<"m","i","l","i","t","a","r","y">>,
        <<"m","i","s","s","i","l","e">>,
        <<"k","i","l","l","e","d">>,
        <<"i","n","v","a","s","i","o","n">>,
        <<"b","o","r","d","e","r">>,
        <<"c","o","n","f","l","i","c","t">> >>],
    [name |-> "Economy / Jobs",
     keywords |-> <<
        <<"e","c","o","n","o","m","y">>,
        <<"i","n","f","l","a","t","i","o","n">>,
        <<"j","o","b","s">>,
        <<"u","n","e","m","p","l","o","y","m","e","n","t">>,
        <<"r","e","c","e","s","s","i","o","n">>,
        <<"m","a","r","k","e","t">>,
        <<"w","a","g","e","s">>,
        <<"g","r","o","w","t","h">> >>]
  >>

NarrativeNames == { NARRATIVES[i].name : i \in DOMAIN NARRATIVES }

\* Python's ordering of the four narrative names (str comparison), as used by
\* groupby's sorted keys and by sorted(...) for the selectbox.
NarrativeOrder ==
  << "Economy / Jobs", "Geopolitics / Conflict",
     "Politics / Government", "Technology / Big Tech" >>

NarrativeRank(n) == CHOOSE i \in DOMAIN NarrativeOrder : NarrativeOrder[i] = n

(***************************************************************************)
(* Text preparation (lines 66-69)                                          *)
(***************************************************************************)
\* A null title or selftext (NaN in the frame).
NaN == << "NaN" >>

fillna(s) == IF s = NaN THEN << >> ELSE s

UpperLetters ==
  << "A","B","C","D","E","F","G","H","I","J","K","L","M",
     "N","O","P","Q","R","S","T","U","V","W","X","Y","Z" >>
LowerLetters ==
  << "a","b","c","d","e","f","g","h","i","j","k","l","m",
     "n","o","p","q","r","s","t","u","v","w","x","y","z" >>

LowerChar(c) ==
  IF \E i \in DOMAIN UpperLetters : UpperLetters[i] = c
  THEN LowerLetters[CHOOSE i \in DOMAIN UpperLetters : UpperLetters[i] = c]
  ELSE c

\* faulty variant: the text is not lowercased
lower_skipped(s) == s

\* .str.lower()
lower(s) == [ i \in DOMAIN s |-> LowerChar(s[i]) ]

\* clean_df["text"]
Text(title, selftext) == lower(fillna(title) \o << " " >> \o fillna(selftext))

(***************************************************************************)
(* Narrative detection (lines 71-80)                                       *)
(***************************************************************************)
RECURSIVE MatchAt(_, _, _, _)
\* kw[k..] equals text[i+k-1..]
MatchAt(text, kw, i, k) ==
  IF k > Len(kw) THEN TRUE
  ELSE IF i + k - 1 > Len(text) THEN FALSE
  ELSE IF text[i + k - 1] # kw[k] THEN FALSE
  ELSE MatchAt(text, kw, i, k + 1)

RECURSIVE FindFrom(_, _, _)
\* Python's `kw in text`: scan the start positions left to right
FindFrom(text, kw, i) ==
  IF i + Len(kw) - 1 > Len(text) THEN FALSE
  ELSE IF MatchAt(text, kw, i, 1) THEN TRUE
  ELSE FindFrom(text, kw, i + 1)

In(kw, text) == FindFrom(text, kw, 1)

RECURSIVE AnyKeyword(_, _, _)
\* the inner for loop with its break
AnyKeyword(keywords, text, j) ==
  IF j > Len(keywords) THEN FALSE
  ELSE IF In(keywords[j], text) THEN TRUE
  ELSE AnyKeyword(keywords, text, j + 1)

RECURSIVE DetectFrom(_, _, _)
\* the outer for loop over NARRATIVES.items(), appending to matched
DetectFrom(text, i, matched) ==
  IF i > Len(NARRATIVES) THEN matched
  ELSE IF AnyKeyword(NARRATIVES[i].keywords, text, 1)
       THEN DetectFrom(text, i + 1, Append(matched, NARRATIVES[i].name))
       ELSE DetectFrom(text, i + 1, matched)

detect_narratives(text) == DetectFrom(text, 1, << >>)

(***************************************************************************)
(* Expansion (lines 82-83)                                                 *)
(***************************************************************************)
RECURSIVE ExplodeList(_, _, _)
\* the rows one post contributes: one per element of its narratives list
ExplodeList(i, matched, k) ==
  IF k > Len(matched) THEN << >>
  ELSE << [ post |-> i,
            subreddit |-> posts[i].subreddit,
            created_utc |-> posts[i].created_utc,
            narratives |-> matched[k] ] >>
       \o ExplodeList(i, matched, k + 1)

RECURSIVE ExplodeFrom(_)
\* explode("narratives") then dropna: a post with an empty list explodes to
\* one row whose narratives is NaN, and dropna removes that row
ExplodeFrom(i) ==
  IF i > Len(posts) THEN << >>
  ELSE ExplodeList(i,
         detect_narratives(Text(posts[i].title, posts[i].selftext)), 1)
       \o ExplodeFrom(i + 1)

Exploded == ExplodeFrom(1)

(***************************************************************************)
(* Time processing (lines 88-104)                                          *)
(* A timestamp is (day since the epoch, second of that day); a timedelta   *)
(* is (days, seconds) with 0 <= seconds < 86400, as pandas normalises it.  *)
(***************************************************************************)
to_datetime(s) == [ day |-> s \div SecondsPerDay, sec |-> s % SecondsPerDay ]

TimeLeq(a, b) == a.day < b.day \/ (a.day = b.day /\ a.sec <= b.sec)

TimeMin(S) == CHOOSE t \in S : \A u \in S : TimeLeq(t, u)

\* faulty variant: the difference of the calendar days, without the borrow
Timedelta_no_borrow(a, b) ==
  [ days |-> a.day - b.day, seconds |-> (a.sec - b.sec) % SecondsPerDay ]

Timedelta(a, b) ==
  IF a.sec - b.sec < 0
  THEN [ days |-> a.day - b.day - 1, seconds |-> a.sec - b.sec + SecondsPerDay ]
  ELSE [ days |-> a.day - b.day, seconds |-> a.sec - b.sec ]

\* faulty variant: the delta rounded to the nearest day
dt_days_rounded(td) ==
  IF 2 * td.seconds >= SecondsPerDay THEN td.days + 1 ELSE td.days

dt_days(td) == td.days

\* groupby("narratives")["created_time"].min() over the rows of df
FirstSeen(df) ==
  [ n \in { df[i].narratives : i \in DOMAIN df } |->
      TimeMin({ to_datetime(df[i].created_utc) :
                  i \in { j \in DOMAIN df : df[j].narratives = n } }) ]

days_since_start(created_time, fs) == dt_days(Timedelta(created_time, fs))

\* narrative_df after the merge and the days_since_start column
NarrativeDf ==
  LET ex == Exploded
      fs == FirstSeen(ex)
  IN [ i \in DOMAIN ex |->
         [ idx |-> i,
           post |-> ex[i].post,
           subreddit |-> ex[i].subreddit,
           created_utc |-> ex[i].created_utc,
           narratives |-> ex[i].narratives,
           created_time |-> to_datetime(ex[i].created_utc),
           first_seen |-> fs[ex[i].narratives],
           days_since_start |->
             days_since_start(to_datetime(ex[i].created_utc),
                              fs[ex[i].narratives]) ] ]

(***************************************************************************)
(* Generic frame helpers                                                   *)
(***************************************************************************)
RECURSIVE FilterSeq(_, _, _)
\* boolean-mask selection: the rows whose position is in keep, in order
FilterSeq(df, keep, i) ==
  IF i > Len(df) THEN << >>
  ELSE IF i \in keep THEN << df[i] >> \o FilterSeq(df, keep, i + 1)
  ELSE FilterSeq(df, keep, i + 1)

Min(S) == CHOOSE x \in S : \A y \in S : x <= y
Max(S) == CHOOSE x \in S : \A y \in S : x >= y

RECURSIVE AscendingSeq(_)
\* the elements of a set of integers in ascending order
AscendingSeq(S) ==
  IF S = {} THEN << >> ELSE << Min(S) >> \o AscendingSeq(S \ { Min(S) })

\* nunique()
nunique(df, col) == Cardinality({ df[i][col] : i \in DOMAIN df })

\* Position of the row that an unstable descending sort puts first among
\* the positions in S: the largest count; among equal counts the order is
\* the build's (sort_tie = 0 is the order a stable sort would give).
TieKey(p, n) == (p - 1 + sort_tie) % n

SortFirst(rows, S) ==
  CHOOSE p \in S :
    \A q \in S \ {p} :
      \/ rows[p].count > rows[q].count
      \/ /\ rows[p].count = rows[q].count
         /\ TieKey(p, Len(rows)) < TieKey(q, Len(rows))

RECURSIVE SortPositions(_, _)
SortPositions(rows, S) ==
  IF S = {} THEN << >>
  ELSE << SortFirst(rows, S) >> \o SortPositions(rows, S \ { SortFirst(rows, S) })

\* sort_values(<count>, ascending=False), default kind="quicksort"
sort_values_desc(rows) ==
  LET ps == SortPositions(rows, DOMAIN rows)
  IN [ i \in DOMAIN rows |-> rows[ps[i]] ]

\* head(n)
head(rows, n) == IF Len(rows) <= n THEN rows ELSE SubSeq(rows, 1, n)

(***************************************************************************)
(* Windowing filter (lines 119-122)                                        *)
(***************************************************************************)
\* faulty variant: the upper end of the range is excluded
WindowFilter_exclusive(df, lo, hi) ==
  FilterSeq(df, { i \in DOMAIN df : /\ df[i].days_since_start >= lo
                                    /\ df[i].days_since_start < hi }, 1)

WindowFilter(df, lo, hi) ==
  FilterSeq(df, { i \in DOMAIN df : /\ df[i].days_since_start >= lo
                                    /\ df[i].days_since_start <= hi }, 1)

(***************************************************************************)
(* Global KPIs (lines 129-138)                                             *)
(***************************************************************************)

Summary(wdf) ==
  [ total_events |-> Len(wdf),
    active_subreddits |-> nunique(wdf, "subreddit"),
    active_narratives |-> nunique(wdf, "narratives") ]

(***************************************************************************)
(* Narrative distribution (lines 145-151)                                  *)
(***************************************************************************)
CountWhere(df, Test(_)) == Cardinality({ i \in DOMAIN df : Test(df[i]) })

\* value_counts(): one row per distinct value, counted in first-encountered
\* order, then sorted by count, descending
value_counts(wdf) ==
  LET firsts == { i \in DOMAIN wdf :
                    \A j \in 1..(i - 1) : wdf[j].narratives # wdf[i].narratives }
      order == AscendingSeq(firsts)
      rows == [ k \in DOMAIN order |->
                  [ Narrative |-> wdf[order[k]].narratives,
                    count |-> LET IsIt(r) == r.narratives = wdf[order[k]].narratives
                              IN CountWhere(wdf, IsIt) ] ]
  IN sort_values_desc(rows)

(***************************************************************************)
(* Narrative time series (lines 160-165)                                   *)
(***************************************************************************)
\* groupby(["days_since_start", "narratives"]).size(): the groups that occur,
\* in ascending key order
GroupByDayNarrative(df) ==
  LET days == AscendingSeq({ df[i].days_since_start : i \in DOMAIN df })
      w == Len(NarrativeOrder)
      DayOf(k) == days[((k - 1) \div w) + 1]
      NameOf(k) == NarrativeOrder[((k - 1) % w) + 1]
      Size(k) == LET IsIt(r) == /\ r.days_since_start = DayOf(k)
                                /\ r.narratives = NameOf(k)
                 IN CountWhere(df, IsIt)
      all == [ k \in 1..(Len(days) * w) |->
                 [ days_since_start |-> DayOf(k),
                   narratives |-> NameOf(k),
                   count |-> Size(k) ] ]
  IN FilterSeq(all, { k \in DOMAIN all : all[k].count > 0 }, 1)

\* faulty variant: the time series is taken from the rows of the selected window
NarrativeTimeDf_windowed(df) ==
  GroupByDayNarrative(WindowFilter(df, day_range[1], day_range[2]))

\* narrative_time_df
NarrativeTimeDf(df) == GroupByDayNarrative(df)

\* sorted(narrative_time_df["narratives"].unique())
SelectOptions(ntdf) ==
  LET present == { ntdf[i].narratives : i \in DOMAIN ntdf }
  IN FilterSeq(NarrativeOrder,
               { k \in DOMAIN NarrativeOrder : NarrativeOrder[k] \in present }, 1)

(***************************************************************************)
(* Narrative KPIs (lines 175-196)                                          *)
(***************************************************************************)
SelectedDf(wdf, sel) ==
  FilterSeq(wdf, { i \in DOMAIN wdf : wdf[i].narratives = sel }, 1)

\* narrative_time_df[narratives == selected].sort_values("count",
\* ascending=False); peak_row is its .iloc[0]
PeakSorted(ntdf, sel) ==
  sort_values_desc(
    FilterSeq(ntdf, { i \in DOMAIN ntdf : ntdf[i].narratives = sel }, 1))

(***************************************************************************)
(* Community amplification (lines 217-223)                                 *)
(***************************************************************************)
\* groupby("subreddit").size(): one row per subreddit, in ascending key order
GroupBySubreddit(sdf) ==
  LET keys == AscendingSeq({ sdf[i].subreddit : i \in DOMAIN sdf })
  IN [ k \in DOMAIN keys |->
         [ subreddit |-> keys[k],
           count |-> LET IsIt(r) == r.subreddit = keys[k]
                     IN CountWhere(sdf, IsIt) ] ]

\* faulty variant: the groups are cut to ten without being sorted by count
CommunityCounts_unsorted(sdf) == head(GroupBySubreddit(sdf), TopN)

CommunityCounts(sdf) == head(sort_values_desc(GroupBySubreddit(sdf)), TopN)

(***************************************************************************)
(* Key observations (lines 237-302)                                        *)
(***************************************************************************)
\* idxmax(): the label of the first row holding the maximum
idxmax(vc) ==
  vc[Min({ i \in DOMAIN vc : \A j \in DOMAIN vc : vc[i].count >= vc[j].count })]
    .Narrative

NoObservations ==
  [ kind |-> "none", dominant_narrative |-> "", days_to_peak |-> 0,
    communities_reached |-> 0, avg_num |-> 0, avg_den |-> 1 ]

EmptyWindowMessage == [ NoObservations EXCEPT !.kind = "empty_window_message" ]

\* avg_posts_per_day is the mean of the per-day sizes: avg_num / avg_den
Statements(wdf, ntdf, sel) ==
  [ kind |-> "statements",
    dominant_narrative |-> idxmax(value_counts(wdf)),
    days_to_peak |-> PeakSorted(ntdf, sel)[1].days_since_start,
    communities_reached |-> nunique(SelectedDf(wdf, sel), "subreddit"),
    avg_num |-> Len(wdf),
    avg_den |-> Cardinality({ wdf[i].days_since_start : i \in DOMAIN wdf }) ]

Observations(wdf, ntdf, sel) ==
  IF Len(wdf) = 0 THEN EmptyWindowMessage ELSE Statements(wdf, ntdf, sel)

(***************************************************************************)
(* One run of the script                                                   *)
(***************************************************************************)
Sections ==
  { "slider", "global_kpis", "distribution", "selectbox", "narrative_kpis",
    "timeline", "communities", "observations" }

NoKpis == [ total_amplifications |-> 0, communities_reached |-> 0,
            days_to_peak |-> 0 ]

NoSummary == [ total_events |-> 0, active_subreddits |-> 0,
               active_narratives |-> 0 ]

\* What a run leaves when it stops before producing anything.
NoOutput ==
  [ pc |-> "error", error |-> "none", rendered |-> {},
    narrative_df |-> << >>, first_seen |-> << >>,
    day_range |-> << 0, 0 >>, selected_narrative |-> "",
    narrative_time_df |-> << >>, window_df |-> << >>,
    summary |-> NoSummary, narrative_counts |-> << >>,
    narrative_kpis |-> NoKpis, community_counts |-> << >>,
    observations |-> NoObservations ]

\* The page shows what the run left.
Show(out) ==
  /\ pc' = out.pc
  /\ error' = out.error
  /\ rendered' = out.rendered
  /\ narrative_df' = out.narrative_df
  /\ first_seen' = out.first_seen
  /\ day_range' = out.day_range
  /\ selected_narrative' = out.selected_narrative
  /\ narrative_time_df' = out.narrative_time_df
  /\ window_df' = out.window_df
  /\ summary' = out.summary
  /\ narrative_counts' = out.narrative_counts
  /\ narrative_kpis' = out.narrative_kpis
  /\ community_counts' = out.community_counts
  /\ observations' = out.observations
  /\ UNCHANGED << posts, sort_tie, plot_empty_raises >>

\* The script from line 82 to the end.  use_default is TRUE on the first run
\* (the widgets take their default values) and FALSE on a rerun (the widgets
\* keep the values dr and sel the user gave them).  Each \E x \in { e } names
\* the value of e, as the script's assignment does.
Script(use_default, dr, sel) ==
  \E df \in { NarrativeDf } :
  IF Len(df) = 0
  THEN \* line 111: int() of the NaN that min() returns for zero rows
       \* raises ValueError; nothing below it runs
       Show([ NoOutput EXCEPT !.error = "ValueError_111",
                              !.narrative_df = df,
                              !.first_seen = FirstSeen(df) ])
  ELSE
    \E min_day \in { Min({ df[i].days_since_start : i \in DOMAIN df }) } :
    \E max_day \in { Max({ df[i].days_since_start : i \in DOMAIN df }) } :
    \E range \in { IF use_default THEN << min_day, max_day >> ELSE dr } :
    \E wdf \in { WindowFilter(df, range[1], range[2]) } :
    \E ntdf \in { NarrativeTimeDf(df) } :
    \E options \in { SelectOptions(ntdf) } :
    \E choice \in { IF use_default THEN options[1] ELSE sel } :
    \E sdf \in { SelectedDf(wdf, choice) } :
    \E peak \in { PeakSorted(ntdf, choice) } :
    \E cc \in { CommunityCounts(sdf) } :
    \E at_select \in
         { [ NoOutput EXCEPT !.narrative_df = df,
                             !.first_seen = FirstSeen(df),
                             !.day_range = range,
                             !.window_df = wdf,
                             !.summary = Summary(wdf),
                             !.narrative_counts = value_counts(wdf),
                             !.narrative_time_df = ntdf,
                             !.selected_narrative = choice,
                             !.rendered = { "slider", "global_kpis",
                                            "distribution", "selectbox" } ] } :
    IF Len(peak) = 0
    THEN \* line 184: .iloc[0] of zero rows raises IndexError
         Show([ at_select EXCEPT !.error = "IndexError_184" ])
    ELSE
      \E at_plot \in
           { [ at_select EXCEPT
                 !.narrative_kpis =
                   [ total_amplifications |-> Len(sdf),
                     communities_reached |-> nunique(sdf, "subreddit"),
                     days_to_peak |-> peak[1].days_since_start ],
                 !.community_counts = cc,
                 !.rendered = at_select.rendered
                                \cup { "narrative_kpis", "timeline" } ] } :
      IF Len(cc) = 0 /\ plot_empty_raises
      THEN \* line 226: the bar plot of zero rows raises IndexError
           Show([ at_plot EXCEPT !.error = "IndexError_226" ])
      ELSE Show([ at_plot EXCEPT
                    !.pc = "done",
                    !.rendered = Sections,
                    !.observations = Observations(wdf, ntdf, choice) ])

(***************************************************************************)
(* Actions                                                                 *)
(***************************************************************************)
\* The page is opened: the first run, with the widgets' defaults.
Open ==
  /\ pc = "start"
  /\ Script(TRUE, << 0, 0 >>, "")

\* The user moves the slider to (a, b) within its limits; the script reruns.
SetWindow(a, b) ==
  /\ "slider" \in rendered
  /\ a <= b
  /\ a >= Min({ narrative_df[i].days_since_start : i \in DOMAIN narrative_df })
  /\ b <= Max({ narrative_df[i].days_since_start : i \in DOMAIN narrative_df })
  /\ Script(FALSE, << a, b >>, selected_narrative)

\* The user picks a narrative in the selectbox; the script reruns.
SelectNarrative(n) ==
  /\ "selectbox" \in rendered
  /\ \E k \in DOMAIN SelectOptions(narrative_time_df) :
       SelectOptions(narrative_time_df)[k] = n
  /\ Script(FALSE, day_range, n)

(***************************************************************************)
(* Inputs                                                                  *)
(***************************************************************************)
\* 2023-11-14 22:13:20 UTC, not on a day boundary
BaseTime == 19675 * SecondsPerDay + 80000

Hour == SecondsPerDay \div 24

\* the first post, 23 h later, 25 h later, two days later
MainTimes ==
  { BaseTime, BaseTime + 23 * Hour, BaseTime + 25 * Hour, BaseTime + 48 * Hour }

Post(sub, t, txt) ==
  [ subreddit |-> sub, created_utc |-> t,
    title |-> txt.title, selftext |-> txt.selftext ]

\* "AI": Technology
TechText == [ title |-> << "A", "I" >>, selftext |-> NaN ]

\* "AI" + "vote": Technology and Politics
BothText == [ title |-> << "A", "I" >>, selftext |-> << "v", "o", "t", "e" >> ]

\* "hi": no narrative
NoMatchText == [ title |-> << "h", "i" >>, selftext |-> NaN ]

\* Technology posts in the first subreddit, two-narrative posts in the
\* second, and a post that matches nothing
MainPosts ==
  { Post(1, t, TechText) : t \in MainTimes }
    \cup { Post(2, t, BothText) : t \in MainTimes }
    \cup { Post(1, BaseTime, NoMatchText) }

SeqsUpTo(S, n) == UNION { [ 1..k -> S ] : k \in 0..n }

\* Orders in which the build's quicksort may leave equal keys: 0 is the
\* order of a stable sort, 1 moves the last of them to the front.
TieShifts == { 0, 1 }

InitCommon ==
  /\ sort_tie \in TieShifts
  /\ plot_empty_raises \in BOOLEAN
  /\ pc = "start"
  /\ error = "none"
  /\ rendered = {}
  /\ day_range = << 0, 0 >>
  /\ selected_narrative = ""
  /\ narrative_df = << >>
  /\ first_seen = << >>
  /\ narrative_time_df = << >>
  /\ window_df = << >>
  /\ summary = NoSummary
  /\ narrative_counts = << >>
  /\ narrative_kpis = NoKpis
  /\ community_counts = << >>
  /\ observations = NoObservations

\* Any data.jsonl of at most MaxPosts posts.
Init ==
  /\ posts \in SeqsUpTo(MainPosts, MaxPosts)
  /\ InitCommon

\* One post, with the texts that exercise the classifier.
ClassifyTitles ==
  { NaN,
    << >>,
    << " ", " " >>,
    << "A", "I" >>,
    << "A", "r", "t", "i", "f", "i", "c", "i", "a", "l" >>,
    << "W", "a", "r", "m" >>,
    << "M", "U", "S", "K", " ", "v", "o", "t", "e", "s" >>,
    << "m" >> }

ClassifySelftexts ==
  { NaN,
    << >>,
    << " " >>,
    << "i", "n", "t", "e", "l", "l", "i", "g", "e", "n", "c", "e" >>,
    << "B", "i", "l", "l" >>,
    << "j", "o", "b", "s", " ", "g", "r", "o", "w", "t", "h" >>,
    << "e", "t", "a" >>,
    << "h", "i" >> }

InitClassify ==
  /\ posts \in { << Post(1, BaseTime, [ title |-> t, selftext |-> b ]) >> :
                   t \in ClassifyTitles, b \in ClassifySelftexts }
  /\ InitCommon

\* One Technology post in each of MaxSubreddits subreddits, listed in
\* ascending or in descending name order, then up to MaxExtraPosts more
\* a day later.
TopBase ==
  { [ k \in 1..MaxSubreddits |-> Post(k, BaseTime, TechText) ],
    [ k \in 1..MaxSubreddits |-> Post(MaxSubreddits + 1 - k, BaseTime, TechText) ] }

TopExtras ==
  SeqsUpTo({ Post(sub, BaseTime + 25 * Hour, TechText) :
               sub \in 1..MaxSubreddits }, MaxExtraPosts)

InitTop ==
  /\ posts \in { base \o extra : base \in TopBase, extra \in TopExtras }
  /\ InitCommon

DayChoices == 0..3

Next ==
  \/ Open
  \/ \E a \in DayChoices, b \in DayChoices : SetWindow(a, b)
  \/ \E n \in NarrativeNames : SelectNarrative(n)

Spec == Init /\ [][Next]_vars

SpecClassify == InitClassify /\ [][Next]_vars

SpecTop == InitTop /\ [][Next]_vars

(***************************************************************************)
(* Properties                                                              *)
(***************************************************************************)
Rows == DOMAIN narrative_df

Day(i) == narrative_df[i].days_since_start

RowsOf(n) == { i \in Rows : narrative_df[i].narratives = n }

Present == { narrative_df[i].narratives : i \in Rows }

\* created_utc of the earliest event of narrative n, in seconds
FirstSeenUtc(n) == Min({ narrative_df[i].created_utc : i \in RowsOf(n) })

\* seconds between event i and the first event of its narrative
Delta(i) == narrative_df[i].created_utc - FirstSeenUtc(narrative_df[i].narratives)

InRange(i, a, b) == a <= Day(i) /\ Day(i) <= b

Holds(df, i) == \E k \in DOMAIN df : df[k] = narrative_df[i]

WindowRows == { i \in Rows : Holds(window_df, i) }

SelectedWindowRows ==
  { i \in WindowRows : narrative_df[i].narratives = selected_narrative }

AnyDays == -1..4

\* C1: an event is in the windowed set iff lo <= days_since_start <= hi,
\* both ends inclusive, for the window the page shows and for every integer
\* pair (a, b) given to the filter, also pairs outside the observed days and
\* pairs with a > b; the filter returns rows of the event set, each once.
C1_WindowFilterExact ==
  "slider" \in rendered =>
    /\ \A i \in Rows :
         Holds(window_df, i) <=> InRange(i, day_range[1], day_range[2])
    /\ \A k \in DOMAIN window_df : \E i \in Rows : window_df[k] = narrative_df[i]
    /\ \A k, l \in DOMAIN window_df : k < l => window_df[k].idx < window_df[l].idx
    /\ \A a \in AnyDays, b \in AnyDays :
         \E w \in { WindowFilter(narrative_df, a, b) } :
           /\ \A i \in Rows : Holds(w, i) <=> InRange(i, a, b)
           /\ \A k \in DOMAIN w : \E i \in Rows : w[k] = narrative_df[i]
           /\ Len(w) = Cardinality({ i \in Rows : InRange(i, a, b) })

\* a window that keeps an event on its last day and drops another event
C1_Witness ==
  /\ pc = "done"
  /\ \E k \in DOMAIN window_df : window_df[k].days_since_start = day_range[2]
  /\ \E i \in Rows : ~ InRange(i, day_range[1], day_range[2])

\* C2: with a non-empty event set and a window that holds no event, the run
\* ends without an error, the three global metrics are 0, and the Key
\* Observations block is the single empty-window message.
C2_EmptyWindowMessage ==
  ("slider" \in rendered /\ narrative_df # << >> /\ window_df = << >>) =>
    /\ pc = "done"
    /\ error = "none"
    /\ summary = NoSummary
    /\ observations = EmptyWindowMessage

\* C3: when posts are loaded and none matches a keyword, the run does not
\* fail and ends with the empty-window message.
C3_EmptyEventSetDegrades ==
  (pc # "start" /\ posts # << >> /\ narrative_df = << >>) =>
    /\ error = "none"
    /\ observations = EmptyWindowMessage

CountOn(n, d) == Cardinality({ i \in RowsOf(n) : Day(i) = d })

DaysOf(n) == { Day(i) : i \in RowsOf(n) }

MaxCount(n) == Max({ CountOn(n, d) : d \in DaysOf(n) })

PeakDays(n) == { d \in DaysOf(n) : CountOn(n, d) = MaxCount(n) }

\* C4: the reported peak day of the selected narrative has the maximal count
\* over the full event set and is the earliest of the days with that count.
C4_PeakIsEarliestMaxDay ==
  "narrative_kpis" \in rendered =>
    narrative_kpis.days_to_peak = Min(PeakDays(selected_narrative))

SubCount(sub) ==
  Cardinality({ i \in SelectedWindowRows : narrative_df[i].subreddit = sub })

ActiveSubs == { narrative_df[i].subreddit : i \in SelectedWindowRows }

Listed == { community_counts[k].subreddit : k \in DOMAIN community_counts }

\* position, in the event set, of the first event of subreddit sub for the
\* selected narrative in the window
FirstEncounter(sub) ==
  Min({ i \in SelectedWindowRows : narrative_df[i].subreddit = sub })

\* C5: at most 10 subreddits, each listed once with the number of
\* windowed events of the selected narrative in it, in non-increasing count
\* order, 10 of them when more than 10 are active, and no omitted subreddit
\* has a larger count than a listed one.  Nothing is said of the order among
\* equal counts.
C5_TopCommunities ==
  "narrative_kpis" \in rendered =>
    /\ Len(community_counts) <= TopN
    /\ Len(community_counts) =
         IF Cardinality(ActiveSubs) <= TopN THEN Cardinality(ActiveSubs) ELSE TopN
    /\ Listed \subseteq ActiveSubs
    /\ \A k, l \in DOMAIN community_counts :
         k # l => community_counts[k].subreddit # community_counts[l].subreddit
    /\ \A k \in DOMAIN community_counts :
         community_counts[k].count = SubCount(community_counts[k].subreddit)
    /\ \A k, l \in DOMAIN community_counts :
         k < l => community_counts[k].count >= community_counts[l].count
    /\ \A sub \in ActiveSubs \ Listed :
         \A k \in DOMAIN community_counts : SubCount(sub) <= community_counts[k].count

\* more than 10 active subreddits, counts that differ, a tie at the cut
C5_Witness ==
  /\ pc = "done"
  /\ Cardinality(ActiveSubs) > TopN
  /\ Len(community_counts) = TopN
  /\ community_counts[1].count > community_counts[TopN].count
  /\ \E sub \in ActiveSubs \ Listed : SubCount(sub) = community_counts[TopN].count

\* C5 with ties by first encounter: the property above, and subreddits with
\* equal counts are listed (and cut) in the order in which they are first
\* encountered in the event set.
C5_TiesByFirstEncounter ==
  "narrative_kpis" \in rendered =>
    /\ C5_TopCommunities
    /\ \A k, l \in DOMAIN community_counts :
         (k < l /\ community_counts[k].count = community_counts[l].count) =>
           FirstEncounter(community_counts[k].subreddit)
             < FirstEncounter(community_counts[l].subreddit)
    /\ \A sub \in ActiveSubs \ Listed :
         \A k \in DOMAIN community_counts :
           SubCount(sub) = community_counts[k].count =>
             FirstEncounter(community_counts[k].subreddit) < FirstEncounter(sub)

FirstSeenSeconds(n) == first_seen[n].day * SecondsPerDay + first_seen[n].sec

\* first_seen is the minimum created time over all events of each narrative
C6_FirstSeenOverAll ==
  pc # "start" =>
    /\ DOMAIN first_seen = Present
    /\ \A n \in Present :
         /\ \E i \in RowsOf(n) : narrative_df[i].created_utc = FirstSeenSeconds(n)
         /\ \A i \in RowsOf(n) : narrative_df[i].created_utc >= FirstSeenSeconds(n)
    /\ \A i \in Rows :
         narrative_df[i].first_seen = first_seen[narrative_df[i].narratives]
    /\ "narrative_kpis" \in rendered =>
         narrative_kpis.days_to_peak \in PeakDays(selected_narrative)

\* a rerun leaves the full-dataset values as they were
C6_RerunKeeps ==
  ("slider" \in rendered /\ "slider" \in rendered') =>
    /\ narrative_df' = narrative_df
    /\ first_seen' = first_seen
    /\ narrative_time_df' = narrative_time_df
    /\ ( /\ selected_narrative' = selected_narrative
         /\ "narrative_kpis" \in rendered
         /\ "narrative_kpis" \in rendered' ) =>
           narrative_kpis'.days_to_peak = narrative_kpis.days_to_peak

\* C6: over any sequence of window and narrative selections, first_seen is
\* the minimum created time over ALL events of each narrative, and the
\* events' day offsets, the time series and the peak day of a narrative are
\* the same after every rerun.
C6_WindowIndependent == [] C6_FirstSeenOverAll /\ [][C6_RerunKeeps]_vars

\* a window that leaves out the first event of the selected narrative
C6_Witness ==
  /\ pc = "done"
  /\ day_range[1] > 0
  /\ window_df # << >>
  /\ \E i \in RowsOf(selected_narrative) : Day(i) = 0

ZeroRows(n) == { i \in RowsOf(n) : Day(i) = 0 }

FirstRows(n) == { i \in RowsOf(n) : narrative_df[i].created_utc = FirstSeenUtc(n) }

\* C7: for every narrative, the events with days_since_start = 0
\* are exactly those created less than 24 hours after the narrative was
\* first seen; the first-seen posts are among them, so there is at least one.
C7_ZeroOffsetWithinFirstDay ==
  pc # "start" =>
    \A n \in Present :
      /\ ZeroRows(n) = { i \in RowsOf(n) : Delta(i) < SecondsPerDay }
      /\ FirstRows(n) \subseteq ZeroRows(n)
      /\ ZeroRows(n) # {}

\* an event with offset 0 that does not share the first-seen timestamp
C7_Witness ==
  /\ pc = "done"
  /\ \E n \in Present : ZeroRows(n) # FirstRows(n)

\* C7 with a single zero-offset event: exactly one event per narrative has
\* days_since_start = 0,
\* unless several posts share the first-seen timestamp, and then exactly
\* those have it.
C7_ZeroOffsetOnlyFirstPosts ==
  pc # "start" =>
    \A n \in Present :
      IF Cardinality(FirstRows(n)) = 1
      THEN Cardinality(ZeroRows(n)) = 1
      ELSE ZeroRows(n) = FirstRows(n)

\* C8: days_since_start is the whole-day truncation of created_utc minus the
\* narrative's first created_utc: a non-negative integer d with
\* 86400 d <= delta < 86400 (d + 1), so 0 below 24 h and 1 at 25 h.
C8_DayOffsetTruncates ==
  pc # "start" =>
    \A i \in Rows :
      /\ Day(i) >= 0
      /\ Day(i) * SecondsPerDay <= Delta(i)
      /\ Delta(i) < (Day(i) + 1) * SecondsPerDay

\* a post 23 hours after the first one, with offset 0
C8_Witness ==
  /\ pc = "done"
  /\ \E i \in Rows : Delta(i) = 23 * Hour /\ Day(i) = 0

\* C9: with a non-empty window that holds no event of the selected
\* narrative, the run ends without an error, the narrative's window
\* aggregates are zero or empty, and the peak day is defined.
C9_AbsentNarrativeNoError ==
  ("selectbox" \in rendered /\ window_df # << >> /\ SelectedWindowRows = {}) =>
    /\ pc = "done"
    /\ error = "none"
    /\ narrative_kpis.total_amplifications = 0
    /\ narrative_kpis.communities_reached = 0
    /\ community_counts = << >>
    /\ narrative_kpis.days_to_peak \in PeakDays(selected_narrative)

\* title + " " + selftext with a null field taken as empty, not lowercased
RawText(p) ==
  (IF posts[p].title = NaN THEN << >> ELSE posts[p].title)
    \o << " " >>
    \o (IF posts[p].selftext = NaN THEN << >> ELSE posts[p].selftext)

\* character c lowercases to the lowercase character l
LowersTo(c, l) ==
  c = l \/ \E x \in DOMAIN UpperLetters : UpperLetters[x] = c /\ LowerLetters[x] = l

\* the lowercase keyword kw is a substring of the lowercased text t
Occurs(kw, t) ==
  \E o \in 0..(Len(t) - Len(kw)) :
    \A k \in DOMAIN kw : LowersTo(t[o + k], kw[k])

HasKeyword(p, j) ==
  \E x \in DOMAIN NARRATIVES[j].keywords :
    Occurs(NARRATIVES[j].keywords[x], RawText(p))

Blank(p) == \A k \in DOMAIN RawText(p) : RawText(p)[k] = " "

\* C10: a narrative is matched to a post iff one of its keywords is a
\* substring of the lowercased title + " " + selftext (null as empty); it is
\* matched at most once; a post whose text is empty or blank matches none.
C10_KeywordContainment ==
  pc # "start" =>
    \A p \in DOMAIN posts :
      /\ \A j \in DOMAIN NARRATIVES :
           Cardinality({ i \in Rows : /\ narrative_df[i].post = p
                                      /\ narrative_df[i].narratives
                                           = NARRATIVES[j].name })
             = IF HasKeyword(p, j) THEN 1 ELSE 0
      /\ Blank(p) => \A i \in Rows : narrative_df[i].post # p

\* "Artificial" + "intelligence": matched only through the lowercased text
\* joined by the space
C10_Witness ==
  /\ pc = "done"
  /\ posts[1].title = << "A", "r", "t", "i", "f", "i", "c", "i", "a", "l" >>
  /\ posts[1].selftext
       = << "i", "n", "t", "e", "l", "l", "i", "g", "e", "n", "c", "e" >>
  /\ Len(narrative_df) = 1
  /\ narrative_df[1].narratives = "Technology / Big Tech"

====
